---- MODULE Spec2Model ----
(***************************************************************************)
(* Globalize API (src/main.py, src/schemas.py): the lead-capture backend.  *)
(*                                                                         *)
(* One request is in flight at a time (the handlers are synchronous and    *)
(* share no state but the document store and the environment).  A request  *)
(* to POST /api/leads runs step by step: body validation by the framework, *)
(* create_lead's try block up to create_document, then each call of        *)
(* _maybe_send_lead_email, then the return statement.  The GET handlers    *)
(* change nothing and are one step each.                                   *)
(*                                                                         *)
(* Python and JSON values are tagged records: None is [t |-> "None"], a    *)
(* string is [t |-> "str", v |-> <<characters>>].  A JSON object is a      *)
(* function from the keys it holds; a key that is missing is not in its    *)
(* DOMAIN.  A message built from a literal and a computed text is the pair *)
(* [text |-> literal, tail |-> characters], read as their concatenation.   *)
(***************************************************************************)
EXTENDS Integers, Sequences, FiniteSets, TLC

VARIABLES
    env,            \* os.environ, read-only after process start
    store,          \* the "lead" collection of the document store
    nextId,         \* the identifier generator of the persistence layer
    served,         \* lead submissions received so far
    pc,             \* position of the request in flight
    route,          \* route of the request in flight
    lead,           \* create_lead's parameter: the validated LeadRequest
    lead_id,        \* create_lead's local lead_id
    email_result,   \* create_lead's local email_result
    trace,          \* the external calls the request in flight has made
    response        \* the response of the request in flight

vars == <<env, store, nextId, served, pc, route, lead, lead_id,
          email_result, trace, response>>

-----------------------------------------------------------------------------
(* Bounds *)

MaxRequests == 2        \* lead submissions in one run
MaxErrLen == 201        \* length of the longest exception text

-----------------------------------------------------------------------------
(* Values *)

None == [t |-> "None"]
Str(s) == [t |-> "str", v |-> s]
IsStr(x) == x.t = "str"

\* Python truthiness of an Optional[str]: None and "" are falsy.
Truthy(x) == IsStr(x) /\ Len(x.v) > 0

Min(a, b) == IF a < b THEN a ELSE b

\* s[:n]
Take(s, n) == SubSeq(s, 1, Min(n, Len(s)))

EmailTruncate == 200
TestTruncate == 50

\* Exception texts: length n, characters varying with the position.
ErrChar(i) == IF i % 3 = 0 THEN "x" ELSE IF i % 3 = 1 THEN "y" ELSE "z"
ErrText(n) == [i \in 1..n |-> ErrChar(i)]
ErrLens == {0, TestTruncate + 1, MaxErrLen}
ErrTexts == {ErrText(n) : n \in ErrLens}

\* What an external call does: it returns, or raises an exception with a text.
Returned == [ok |-> TRUE]
Raised(e) == [ok |-> FALSE, err |-> e]
Outcomes == {Returned} \cup {Raised(e) : e \in ErrTexts}

\* One external call as the request's trace records it.
Event(op, args, o) ==
    [op |-> op, args |-> args, ok |-> o.ok, err |-> IF o.ok THEN <<>> ELSE o.err]

-----------------------------------------------------------------------------
(* Environment *)

getenv(name, default) == IF name \in DOMAIN env THEN env[name] ELSE default

\* A key that is left out of an object.
Absent == [t |-> "absent"]
Present(r) == [k \in {k \in DOMAIN r : r[k] # Absent} |-> r[k]]

\* Every environment: each variable unset, or set to one of its choices.
Envs ==
    {Present(r) : r \in
        [SMTP_HOST : {Absent, Str(<<"h">>)},
         SMTP_PORT : {Absent, Str(<<"2", "5">>), Str(<<"x">>)},
         SMTP_USER : {Absent, Str(<<"u">>)},
         SMTP_PASSWORD : {Absent, Str(<<>>), Str(<<"p">>)},
         SENDER_EMAIL : {Absent, Str(<<>>), Str(<<"s">>)},
         DATABASE_URL : {Absent, Str(<<"m">>)},
         DATABASE_NAME : {Absent, Str(<<"d">>)}]}

smtp_host == getenv("SMTP_HOST", None)
smtp_port == getenv("SMTP_PORT", None)
smtp_user == getenv("SMTP_USER", None)
smtp_password == getenv("SMTP_PASSWORD", None)
sender_email == getenv("SENDER_EMAIL", smtp_user)

\* The test without the sender address.
SmtpConfigured_NoSender == Truthy(smtp_host) /\ Truthy(smtp_port)

\* The negation of line 71's test: host, port and sender are all truthy.
SmtpConfigured == Truthy(smtp_host) /\ Truthy(smtp_port) /\ Truthy(sender_email)

\* int(s) accepts a decimal literal.
Digits == {"0", "1", "2", "3", "4", "5", "6", "7", "8", "9"}
IsIntLiteral(s) == Len(s) > 0 /\ \A i \in 1..Len(s) : s[i] \in Digits
ValueErrorText(s) == <<"i", "n", "t", "(", ")", ":", " ">> \o s

-----------------------------------------------------------------------------
(* Schema: LeadRequest (main.py) and Lead (schemas.py) have the same fields *)

RequiredStr == {"name"}
EmailFields == {"email"}
OptionalFields == {"company", "phone", "services", "budget", "message"}
ModelFields == RequiredStr \cup EmailFields \cup OptionalFields

\* EmailStr: one "@", a non-empty local part, a dotted domain of non-empty labels.
ValidEmail(s) ==
    LET ats == {i \in 1..Len(s) : s[i] = "@"}
        dots == {i \in 1..Len(s) : s[i] = "."}
    IN  /\ Cardinality(ats) = 1
        /\ LET a == CHOOSE i \in ats : TRUE
           IN  /\ a > 1
               /\ a < Len(s)
               /\ \E i \in dots : i > a
               /\ \A i \in dots : /\ i \notin {1, a - 1, a + 1, Len(s)}
                                  /\ i + 1 \notin dots

\* name treated as one more optional field.
FieldErrors_NameOptional(d) ==
    {f \in EmailFields :
       f \notin DOMAIN d \/ ~IsStr(d[f]) \/ ~ValidEmail(d[f].v)}

\* The fields of object d that fail validation.
FieldErrors(d) ==
    {f \in RequiredStr : f \notin DOMAIN d \/ ~IsStr(d[f])}
    \cup {f \in EmailFields :
            f \notin DOMAIN d \/ ~IsStr(d[f]) \/ ~ValidEmail(d[f].v)}

\* A model that keeps the keys it does not declare (extra = "allow").
Validated_KeepExtras(d) ==
    [f \in ModelFields \cup DOMAIN d |-> IF f \in DOMAIN d THEN d[f] ELSE None]

\* The validated model: declared fields only, absent optional fields None.
\* (An extra key of the input, such as "_id", is ignored.)
Validated(d) ==
    [f \in ModelFields |-> IF f \in DOMAIN d THEN d[f] ELSE None]

LeadRequest(d) == Validated(d)
Lead(d) == Validated(d)
model_dump(m) == m

\* Request bodies.
Payloads ==
    {Present(r) : r \in
        [name : {Absent, None, Str(<<>>), Str(<<"J">>)},
         email : {Absent, Str(<<"b", "a", "d">>), Str(<<"a", "@", "b">>),
                  Str(<<"j", "@", "e", ".", "c">>)},
         company : {Absent, Str(<<"C">>)},
         _id : {Absent, Str(<<"7">>)}]}

-----------------------------------------------------------------------------
(* Responses *)

NoResponse == [kind |-> "none"]
Json(body) == [kind |-> "json", status |-> 200, body |-> body]
HTTPException(code, detail) == [kind |-> "error", status |-> code, detail |-> detail]

Message(text, tail) == [text |-> text, tail |-> tail]

-----------------------------------------------------------------------------
(* Persistence layer: database.create_document *)

IdChars == <<"1", "2", "3", "4", "5", "6", "7", "8", "9">>
ObjectId(n) == Str(<<"o", IdChars[n]>>)

\* Inserts one record under a fresh identifier, or raises and inserts nothing.
create_document(data, o) ==
    IF o.ok
    THEN /\ store' = store \cup {[id |-> ObjectId(nextId), doc |-> data]}
         /\ nextId' = nextId + 1
    ELSE UNCHANGED <<store, nextId>>

-----------------------------------------------------------------------------
(* Initial state *)

Init ==
    /\ env \in Envs
    /\ store = {}
    /\ nextId = 1
    /\ served = 0
    /\ pc = "idle"
    /\ route = "none"
    /\ lead = None
    /\ lead_id = None
    /\ email_result = None
    /\ trace = <<>>
    /\ response = NoResponse

Locals == <<lead, lead_id, email_result, trace>>

-----------------------------------------------------------------------------
(* GET / and GET /api/hello *)

read_root ==
    /\ pc = "idle"
    /\ route' = "/"
    /\ response' = Json([message |-> "Globalize.co.uk backend is running"])
    /\ pc' = "done"
    /\ UNCHANGED <<env, store, nextId, served, Locals>>

hello ==
    /\ pc = "idle"
    /\ route' = "/api/hello"
    /\ response' = Json([message |-> "Hello from the backend API!"])
    /\ pc' = "done"
    /\ UNCHANGED <<env, store, nextId, served, Locals>>

-----------------------------------------------------------------------------
(* POST /api/leads *)

\* The framework parses the body into a LeadRequest, or answers 422.
post_leads(body) ==
    /\ pc = "idle"
    /\ served < MaxRequests
    /\ served' = served + 1
    /\ route' = "/api/leads"
    /\ IF FieldErrors(body) = {}
       THEN /\ lead' = LeadRequest(body)
            /\ pc' = "create_lead"
            /\ UNCHANGED response
       ELSE /\ response' = HTTPException(422, FieldErrors(body))
            /\ pc' = "done"
            /\ UNCHANGED lead
    /\ UNCHANGED <<env, store, nextId, lead_id, email_result, trace>>

ValidationErrorText == <<"v", "a", "l", "i", "d", "a", "t", "i", "o", "n">>

\* The except clause missing: a failure of create_document is not answered
\* and the handler goes on to the email.
create_lead_persist_EmailAnyway(o) ==
    /\ pc = "create_lead"
    /\ create_document(model_dump(Lead(model_dump(lead))), o)
    /\ trace' = Append(trace, Event("create_document",
                                    <<"lead", model_dump(Lead(model_dump(lead)))>>, o))
    /\ lead_id' = IF o.ok THEN ObjectId(nextId) ELSE None
    /\ pc' = "email"
    /\ UNCHANGED <<env, served, route, lead, email_result, response>>

\* The failure answered as a server error without the exception's text.
create_lead_persist_ServerError(o) ==
    /\ pc = "create_lead"
    /\ create_document(model_dump(Lead(model_dump(lead))), o)
    /\ trace' = Append(trace, Event("create_document",
                                    <<"lead", model_dump(Lead(model_dump(lead)))>>, o))
    /\ IF o.ok
       THEN /\ lead_id' = ObjectId(nextId)
            /\ pc' = "email"
            /\ UNCHANGED response
       ELSE /\ response' = HTTPException(500, <<>>)
            /\ pc' = "done"
            /\ UNCHANGED lead_id
    /\ UNCHANGED <<env, served, route, lead, email_result>>

\* Lines 46-49 and 60-61: Lead(**lead.model_dump()), then create_document.
create_lead_persist(o) ==
    /\ pc = "create_lead"
    /\ IF FieldErrors(model_dump(lead)) # {}
       THEN /\ response' = HTTPException(400, ValidationErrorText)
            /\ pc' = "done"
            /\ UNCHANGED <<store, nextId, lead_id, trace>>
       ELSE /\ create_document(model_dump(Lead(model_dump(lead))), o)
            /\ trace' = Append(trace, Event("create_document",
                                            <<"lead", model_dump(Lead(model_dump(lead)))>>, o))
            /\ IF o.ok
               THEN /\ lead_id' = ObjectId(nextId)
                    /\ pc' = "email"
                    /\ UNCHANGED response
               ELSE /\ response' = HTTPException(400, o.err)
                    /\ pc' = "done"
                    /\ UNCHANGED lead_id
    /\ UNCHANGED <<env, served, route, lead, email_result>>

\* The response built without the identifier.
create_lead_return_NoId ==
    /\ pc = "return"
    /\ response' = Json([status |-> "ok",
                         id |-> None,
                         email_sent |-> email_result.sent,
                         email_message |-> email_result.message])
    /\ pc' = "done"
    /\ UNCHANGED <<env, store, nextId, served, route, Locals>>

\* Lines 54-59.
create_lead_return ==
    /\ pc = "return"
    /\ response' = Json([status |-> "ok",
                         id |-> lead_id,
                         email_sent |-> email_result.sent,
                         email_message |-> email_result.message])
    /\ pc' = "done"
    /\ UNCHANGED <<env, store, nextId, served, route, Locals>>

-----------------------------------------------------------------------------
(* _maybe_send_lead_email(lead.email, lead.name) *)

Skipped == [sent |-> FALSE,
            message |-> Message("SMTP not configured; skipped sending", <<>>)]
Sent == [sent |-> TRUE, message |-> Message("Confirmation email sent", <<>>)]
EmailFailed_Untruncated(e) ==
    [sent |-> FALSE, message |-> Message("Email failed: ", e)]
EmailFailed(e) ==
    [sent |-> FALSE, message |-> Message("Email failed: ", Take(e, EmailTruncate))]

\* Lines 99-100, then back in create_lead.
CatchEmail(e) ==
    /\ email_result' = EmailFailed(e)
    /\ pc' = "return"

\* Lines 65-72.
email_check_config ==
    /\ pc = "email"
    /\ IF SmtpConfigured
       THEN /\ pc' = "smtp_connect"
            /\ UNCHANGED email_result
       ELSE /\ email_result' = Skipped
            /\ pc' = "return"
    /\ UNCHANGED <<env, store, nextId, served, route, lead, lead_id, trace, response>>

\* A failed connection tried again.
smtp_connect_Retry(o) ==
    /\ pc = "smtp_connect"
    /\ IsIntLiteral(smtp_port.v)
    /\ trace' = trace \o <<Event("int", <<smtp_port>>, Returned),
                           Event("connect", <<smtp_host, smtp_port>>, o)>>
    /\ pc' = IF o.ok THEN "smtp_starttls" ELSE "smtp_connect"
    /\ UNCHANGED <<env, store, nextId, served, route, lead, lead_id,
                   email_result, response>>

\* Line 92: int(smtp_port), then smtplib.SMTP(host, port) connects.
smtp_connect(o) ==
    /\ pc = "smtp_connect"
    /\ IF ~IsIntLiteral(smtp_port.v)
       THEN /\ CatchEmail(ValueErrorText(smtp_port.v))
            /\ trace' = Append(trace, Event("int", <<smtp_port>>,
                                            Raised(ValueErrorText(smtp_port.v))))
       ELSE /\ trace' = trace \o <<Event("int", <<smtp_port>>, Returned),
                                    Event("connect", <<smtp_host, smtp_port>>, o)>>
            /\ IF o.ok
               THEN pc' = "smtp_starttls" /\ UNCHANGED email_result
               ELSE CatchEmail(o.err)
    /\ UNCHANGED <<env, store, nextId, served, route, lead, lead_id, response>>

\* login called whether or not a password is set.
smtp_starttls_AlwaysLogin(o) ==
    /\ pc = "smtp_starttls"
    /\ trace' = Append(trace, Event("starttls", <<>>, o))
    /\ IF o.ok
       THEN pc' = "smtp_login" /\ UNCHANGED email_result
       ELSE CatchEmail(o.err)
    /\ UNCHANGED <<env, store, nextId, served, route, lead, lead_id, response>>

\* Lines 93-94.
smtp_starttls(o) ==
    /\ pc = "smtp_starttls"
    /\ trace' = Append(trace, Event("starttls", <<>>, o))
    /\ IF o.ok
       THEN /\ pc' = IF Truthy(smtp_password) THEN "smtp_login" ELSE "smtp_sendmail"
            /\ UNCHANGED email_result
       ELSE CatchEmail(o.err)
    /\ UNCHANGED <<env, store, nextId, served, route, lead, lead_id, response>>

\* Line 95.
smtp_login(o) ==
    /\ pc = "smtp_login"
    /\ trace' = Append(trace, Event("login", <<smtp_user, smtp_password>>, o))
    /\ IF o.ok
       THEN pc' = "smtp_sendmail" /\ UNCHANGED email_result
       ELSE CatchEmail(o.err)
    /\ UNCHANGED <<env, store, nextId, served, route, lead, lead_id, response>>

\* Line 96.
smtp_sendmail(o) ==
    /\ pc = "smtp_sendmail"
    /\ trace' = Append(trace, Event("sendmail", <<sender_email, <<lead.email>>>>, o))
    /\ IF o.ok
       THEN pc' = "smtp_quit" /\ UNCHANGED email_result
       ELSE CatchEmail(o.err)
    /\ UNCHANGED <<env, store, nextId, served, route, lead, lead_id, response>>

\* Lines 92 and 98: leaving the with block sends QUIT; then the return.
smtp_quit(o) ==
    /\ pc = "smtp_quit"
    /\ trace' = Append(trace, Event("quit", <<>>, o))
    /\ IF o.ok
       THEN email_result' = Sent /\ pc' = "return"
       ELSE CatchEmail(o.err)
    /\ UNCHANGED <<env, store, nextId, served, route, lead, lead_id, response>>

-----------------------------------------------------------------------------
(* GET /test *)

DbStates == {"import_error", "error", "none", "list_raises", "list_ok"}

list_collection_names == IF store = {} THEN <<>> ELSE <<"lead">>

SetOrNot(name) == IF Truthy(getenv(name, None)) THEN "Set" ELSE "Not Set"

\* Only ImportError caught: any other exception leaves the handler.
DiagnosticResponse_Propagates(db, e) ==
    IF db \in {"error", "list_raises"}
    THEN HTTPException(500, e)
    ELSE Json([backend |-> "Running",
               database |->
                   IF db = "import_error"
                   THEN Message("Database module not found (run enable-database first)", <<>>)
                   ELSE IF db = "none"
                   THEN Message("Available but not initialized", <<>>)
                   ELSE Message("Connected & Working", <<>>),
               database_url |-> SetOrNot("DATABASE_URL"),
               database_name |-> SetOrNot("DATABASE_NAME"),
               connection_status |-> IF db = "list_ok" THEN "Connected" ELSE "Not Connected",
               collections |-> IF db = "list_ok" THEN Take(list_collection_names, 10) ELSE <<>>])

\* Lines 106-142.
DiagnosticResponse(db, e) ==
    Json([backend |-> "Running",
          database |->
              CASE db = "import_error" ->
                     Message("Database module not found (run enable-database first)", <<>>)
                [] db = "error" -> Message("Error: ", Take(e, TestTruncate))
                [] db = "none" -> Message("Available but not initialized", <<>>)
                [] db = "list_raises" ->
                     Message("Connected but Error: ", Take(e, TestTruncate))
                [] db = "list_ok" -> Message("Connected & Working", <<>>),
          database_url |-> SetOrNot("DATABASE_URL"),
          database_name |-> SetOrNot("DATABASE_NAME"),
          connection_status |->
              IF db \in {"list_raises", "list_ok"} THEN "Connected" ELSE "Not Connected",
          collections |->
              IF db = "list_ok" THEN Take(list_collection_names, 10) ELSE <<>>])

test_database(db, e) ==
    /\ pc = "idle"
    /\ route' = "/test"
    /\ response' = DiagnosticResponse(db, e)
    /\ pc' = "done"
    /\ UNCHANGED <<env, store, nextId, served, Locals>>

-----------------------------------------------------------------------------
(* The response is delivered; the worker takes the next request. *)

complete ==
    /\ pc = "done"
    /\ pc' = "idle"
    /\ route' = "none"
    /\ lead' = None
    /\ lead_id' = None
    /\ email_result' = None
    /\ trace' = <<>>
    /\ response' = NoResponse
    /\ UNCHANGED <<env, store, nextId, served>>

Next ==
    \/ read_root
    \/ hello
    \/ \E body \in Payloads : post_leads(body)
    \/ \E o \in Outcomes : create_lead_persist(o)
    \/ create_lead_return
    \/ email_check_config
    \/ \E o \in Outcomes : smtp_connect(o)
    \/ \E o \in Outcomes : smtp_starttls(o)
    \/ \E o \in Outcomes : smtp_login(o)
    \/ \E o \in Outcomes : smtp_sendmail(o)
    \/ \E o \in Outcomes : smtp_quit(o)
    \/ \E db \in DbStates, e \in ErrTexts : test_database(db, e)
    \/ complete

Spec == Init /\ [][Next]_vars

-----------------------------------------------------------------------------
(* Properties *)

InLeads == route = "/api/leads"

EmailPcs == {"email", "smtp_connect", "smtp_starttls", "smtp_login",
             "smtp_sendmail", "smtp_quit"}
EmailOps == {"int", "connect", "starttls", "login", "sendmail", "quit"}

Calls(op) == {i \in 1..Len(trace) : trace[i].op = op}

\* The request in flight called create_document first, it returned, and the
\* record it wrote is in the store under the identifier the handler holds.
PersistedByRequest ==
    /\ Len(trace) >= 1
    /\ trace[1].op = "create_document"
    /\ trace[1].ok
    /\ IsStr(lead_id)
    /\ [id |-> lead_id, doc |-> trace[1].args[2]] \in store

EmailAttempted ==
    \/ pc \in EmailPcs
    \/ email_result # None
    \/ \E i \in 1..Len(trace) : trace[i].op \in EmailOps

RespondedOk ==
    /\ response.kind = "json"
    /\ response.status = 200
    /\ response.body.status = "ok"

\* t is the first min(n, Len(e)) characters of e.
IsCut(t, e, n) ==
    /\ Len(t) <= n
    /\ Len(t) <= Len(e)
    /\ Len(e) <= n => Len(t) = Len(e)
    /\ Len(e) > n => Len(t) = n
    /\ \A i \in 1..Len(t) : t[i] = e[i]

\* C1: in a lead submission the email attempt starts only after
\* create_document has returned successfully (it is the first call of the
\* request and every email call comes after it), the record stays in the store
\* through the attempt, and whatever the attempt's outcome the response is
\* status "ok" with the record still persisted.
C1_PersistBeforeEmail ==
    InLeads =>
        /\ EmailAttempted => PersistedByRequest
        /\ \A i \in 1..Len(trace) : trace[i].op \in EmailOps => i > 1
        /\ (pc = "done" /\ email_result # None) => (RespondedOk /\ PersistedByRequest)

C1_Witness ==
    /\ InLeads
    /\ pc = "done"
    /\ email_result # None
    /\ ~email_result.sent
    /\ email_result.message.text = "Email failed: "
    /\ RespondedOk
    /\ PersistedByRequest

\* C2: a submission whose body passed validation and whose create_document
\* call returned ends with status "ok" and a non-null id, the identifier the
\* persistence layer generated for the record of this request, in every
\* environment and for every outcome of the email attempt.
C2_OkWithGeneratedId ==
    (InLeads /\ pc = "done" /\ Len(trace) >= 1 /\ trace[1].ok) =>
        /\ RespondedOk
        /\ response.body.id # None
        /\ response.body.id = ObjectId(nextId - 1)
        /\ [id |-> response.body.id, doc |-> model_dump(lead)] \in store
        /\ email_result # None
        /\ response.body.email_sent = email_result.sent

C2_Witness ==
    /\ InLeads
    /\ pc = "done"
    /\ RespondedOk
    /\ response.body.email_sent
    /\ response.body.id = ObjectId(2)
    /\ Len(lead.name.v) > 0

\* C3: a body with a malformed email or a missing name is answered with a
\* client error (4xx); the store is unchanged, the handler is not entered and
\* no call, so no email attempt, is made.
MissingName(body) == "name" \notin DOMAIN body
MalformedEmail(body) ==
    "email" \in DOMAIN body /\ ~(IsStr(body.email) /\ ValidEmail(body.email.v))

\* The step answered with a client error and touched nothing else.
Rejected ==
    /\ response'.kind = "error"
    /\ response'.status \in 400..499
    /\ store' = store
    /\ nextId' = nextId
    /\ pc' = "done"
    /\ trace' = <<>>
    /\ email_result' = None

\* Every step that receives a submission either rejects it or is the step of
\* no body with a missing name or a malformed email.
C3_InvalidRejected ==
    [][(pc = "idle" /\ route' = "/api/leads") =>
         \/ Rejected
         \/ \A body \in Payloads :
              (MissingName(body) \/ MalformedEmail(body)) => ~post_leads(body)]_vars

C3_Witness ==
    /\ InLeads
    /\ pc = "done"
    /\ response.kind = "error"
    /\ response.status = 422
    /\ response.detail = {"name", "email"}
    /\ trace = <<>>
    /\ store # {}

\* C4: if SMTP_HOST, SMTP_PORT, or both SENDER_EMAIL and SMTP_USER are unset,
\* the email attempt returns the "skipped" result without any SMTP call, and a
\* valid submission ends with status "ok", email_sent false and that message.
SmtpAnyAbsent ==
    \/ "SMTP_HOST" \notin DOMAIN env
    \/ "SMTP_PORT" \notin DOMAIN env
    \/ ("SENDER_EMAIL" \notin DOMAIN env /\ "SMTP_USER" \notin DOMAIN env)

SkippedWithoutConnection ==
    /\ pc \in EmailPcs => pc = "email"
    /\ \A i \in 1..Len(trace) : trace[i].op \notin EmailOps
    /\ email_result # None =>
         /\ email_result.sent = FALSE
         /\ email_result.message = Message("SMTP not configured; skipped sending", <<>>)

RespondedSkipped ==
    /\ RespondedOk
    /\ response.body.email_sent = FALSE
    /\ response.body.email_message = Message("SMTP not configured; skipped sending", <<>>)

\* C4 as claimed: every valid submission in such an environment ends "ok".
C4_Original ==
    (InLeads /\ SmtpAnyAbsent) =>
        /\ SkippedWithoutConnection
        /\ (pc = "done" /\ lead # None) => RespondedSkipped

\* C4 as amended: a valid submission whose persistence step succeeds.
C4_SkippedWhenUnconfigured ==
    (InLeads /\ SmtpAnyAbsent) =>
        /\ SkippedWithoutConnection
        /\ (pc = "done" /\ lead # None /\ Len(trace) >= 1 /\ trace[1].ok) =>
               RespondedSkipped

C4_Witness ==
    /\ InLeads
    /\ "SENDER_EMAIL" \notin DOMAIN env
    /\ "SMTP_USER" \notin DOMAIN env
    /\ "SMTP_HOST" \in DOMAIN env
    /\ "SMTP_PORT" \in DOMAIN env
    /\ pc = "done"
    /\ RespondedSkipped

\* C5: when an SMTP step (port parsing, connect, STARTTLS, login, send, quit)
\* raises, the email result is sent = false with the message "Email failed: "
\* followed by the first 200 characters at most of the exception's text; no
\* further call is made, the record stays persisted and the response is
\* status "ok" with email_sent false and that message.
C5_EmailFailureAbsorbed ==
    (InLeads /\ Len(trace) >= 1 /\ trace[Len(trace)].op \in EmailOps
       /\ ~trace[Len(trace)].ok) =>
        /\ pc \in {"return", "done"}
        /\ email_result # None
        /\ email_result.sent = FALSE
        /\ email_result.message.text = "Email failed: "
        /\ IsCut(email_result.message.tail, trace[Len(trace)].err, 200)
        /\ PersistedByRequest
        /\ pc = "done" =>
             /\ RespondedOk
             /\ response.body.email_sent = FALSE
             /\ response.body.email_message = email_result.message
             /\ response.body.id = lead_id

C5_Witness ==
    /\ InLeads
    /\ pc = "done"
    /\ Len(trace) >= 1
    /\ trace[Len(trace)].op = "login"
    /\ Len(trace[Len(trace)].err) > 200
    /\ Len(response.body.email_message.tail) = 200
    /\ RespondedOk

\* C6: if create_document raises, the request ends with a 400 error whose
\* detail is the exception's text, no email attempt is made and no "ok"
\* response is produced; and a 400 response of create_lead means that the
\* request persisted no record.
C6_PersistFailureIs400 ==
    InLeads =>
        /\ (Len(trace) >= 1 /\ trace[1].op = "create_document" /\ ~trace[1].ok) =>
             /\ pc = "done"
             /\ response.kind = "error"
             /\ response.status = 400
             /\ response.detail = trace[1].err
             /\ Len(trace) = 1
             /\ email_result = None
        /\ (response.kind = "error" /\ response.status = 400) =>
             /\ \A i \in 1..Len(trace) : ~(trace[i].op = "create_document" /\ trace[i].ok)
             /\ lead_id = None
             /\ \A r \in store : r.id # ObjectId(nextId)

C6_Witness ==
    /\ InLeads
    /\ pc = "done"
    /\ response.kind = "error"
    /\ response.status = 400
    /\ Len(response.detail) = MaxErrLen
    /\ Len(trace) = 1
    /\ SmtpConfigured

\* C7: every record of the lead collection has a name and a syntactically
\* valid email, holds the declared fields only, and carries an identifier the
\* persistence layer generated; no step updates or deletes a record.
GeneratedIds == {ObjectId(n) : n \in 1..(nextId - 1)}

RecordWellFormed(r) ==
    /\ DOMAIN r.doc = ModelFields
    /\ IsStr(r.doc.name)
    /\ IsStr(r.doc.email)
    /\ ValidEmail(r.doc.email.v)
    /\ r.id \in GeneratedIds
    /\ \A q \in store : q.id = r.id => q = r

\* C7 as claimed: the name is also non-empty.
C7_Original ==
    \A r \in store : RecordWellFormed(r) /\ Len(r.doc.name.v) > 0

\* C7 as amended: the name is a string, possibly empty.
C7_RecordsValidAndKept ==
    /\ [](\A r \in store : RecordWellFormed(r))
    /\ [][store \subseteq store']_vars

C7_Witness ==
    /\ Cardinality(store) = 2
    /\ \E r \in store : r.doc.name = Str(<<>>) /\ r.doc.company = None
    /\ \E r \in store : r.doc.company # None
    /\ pc = "idle"

\* C8: GET /test answers every state of the database module with a 200
\* diagnostic object whose database field is a status string (a failure's
\* text cut to 50 characters); it changes no persisted state.
StatusTexts ==
    {"Database module not found (run enable-database first)", "Error: ",
     "Available but not initialized", "Connected but Error: ", "Connected & Working"}

C8_DiagnosticNeverRaises ==
    [][(pc = "idle" /\ route' = "/test") =>
       \A db \in DbStates, e \in ErrTexts :
         test_database(db, e) =>
             /\ response'.kind = "json"
             /\ response'.status = 200
             /\ response'.body.database.text \in StatusTexts
             /\ (response'.body.database.text = "Connected & Working") <=> (db = "list_ok")
             /\ db \in {"error", "list_raises"} =>
                    IsCut(response'.body.database.tail, e, 50)
             /\ db \notin {"error", "list_raises"} =>
                    response'.body.database.tail = <<>>
             /\ store' = store
             /\ nextId' = nextId]_vars

C8_Witness ==
    /\ route = "/test"
    /\ pc = "done"
    /\ response.kind = "json"
    /\ response.body.database.text = "Connected but Error: "
    /\ Len(response.body.database.tail) = 50
    /\ store # {}

\* C9: in one lead submission create_document is called at most once, and
\* at most one connection and one send are attempted, failures included.
C9_NoRetry ==
    InLeads =>
        /\ Cardinality(Calls("create_document")) <= 1
        /\ Cardinality(Calls("connect")) <= 1
        /\ Cardinality(Calls("sendmail")) <= 1
        /\ \A i \in 1..Len(trace) : ~trace[i].ok => i = Len(trace)

C9_Witness ==
    /\ InLeads
    /\ pc = "done"
    /\ Cardinality(Calls("connect")) = 1
    /\ \E i \in Calls("connect") : ~trace[i].ok
    /\ RespondedOk

\* C10: the SMTP calls are made in the order connect, STARTTLS, login (if and
\* only if a non-empty password is set), send to the one recipient; the
\* "sent" result is returned only after every one of them returned; a
\* response with email_sent true implies a record persisted by the request.
PasswordConfigured ==
    "SMTP_PASSWORD" \in DOMAIN env /\ env["SMTP_PASSWORD"].v # <<>>

ExpectedSteps ==
    <<"create_document", "int", "connect", "starttls">>
    \o (IF PasswordConfigured THEN <<"login">> ELSE <<>>)
    \o <<"sendmail", "quit">>

C10_SmtpStepOrder ==
    InLeads =>
        /\ Len(trace) <= Len(ExpectedSteps)
        /\ \A i \in 1..Len(trace) : trace[i].op = ExpectedSteps[i]
        /\ \A i \in 1..Len(trace) : i < Len(trace) => trace[i].ok
        /\ \A i \in Calls("sendmail") : trace[i].args[2] = <<lead.email>>
        /\ (email_result # None /\ email_result.sent) =>
             /\ email_result.message = Message("Confirmation email sent", <<>>)
             /\ Len(trace) = Len(ExpectedSteps)
             /\ \A i \in 1..Len(trace) : trace[i].ok
        /\ (pc = "done" /\ response.kind = "json" /\ response.body.email_sent) =>
             PersistedByRequest

C10_Witness ==
    /\ InLeads
    /\ pc = "done"
    /\ RespondedOk
    /\ response.body.email_sent
    /\ Calls("login") = {5}
    /\ Calls("sendmail") = {6}

====
